---------------------------- MODULE Spec2Model ----------------------------
(***************************************************************************)
(* A model of the Blackboard crawler of src/bb-crawler/crawler.py: the     *)
(* CAS login, the course listing, the navigation of a course's sidebar,    *)
(* the extraction of a page's entries, the download of a file and the      *)
(* traversal (crawl) that mirrors all of it under ./bb-vault/.             *)
(*                                                                         *)
(* Text is modelled as a sequence of tokens (a word, a digit, a blank      *)
(* " "), so that the replacement of blanks and the term-heading pattern    *)
(* are computed, never assumed.  A path is a sequence of names below the   *)
(* mirror root; the root itself is the empty path.                         *)
(***************************************************************************)
EXTENDS Integers, Sequences, FiniteSets, TLC

(***************************************************************************)
(* Bounds.                                                                 *)
(***************************************************************************)
\* The longest list of requested terms passed to crawl.
MaxTerms == 2
\* The most requests or storage operations that fail in a replayed fixture.
MaxFaults == 1

\* Python's None and an optional value: the empty tuple, or the value in a tuple.
None == <<>>
Some(x) == <<x>>
Val(o) == o[1]

(***************************************************************************)
(* Generic helpers: Python's ordered dict as a sequence of <<key, value>>. *)
(***************************************************************************)
Range(s) == {s[i] : i \in DOMAIN s}

Prefixes(p) == {SubSeq(p, 1, n) : n \in 0..Len(p)}

DictKeys(d) == {d[i][1] : i \in DOMAIN d}

\* d[k] = v: an existing key keeps its place and takes the new value.
DictSet(d, k, v) ==
    IF k \in DictKeys(d)
    THEN [i \in DOMAIN d |-> IF d[i][1] = k THEN <<k, v>> ELSE d[i]]
    ELSE Append(d, <<k, v>>)

DictGet(d, k) == (CHOOSE i \in DOMAIN d : d[i][1] = k)

\* str.replace(" ", "_")
Sanitize(name) == [i \in DOMAIN name |-> IF name[i] = " " THEN "_" ELSE name[i]]

BaseUrl == "https://bb.sustech.edu.cn"

\* f"https://bb.sustech.edu.cn{href}"
PortalUrl(href) == <<BaseUrl, href>>

(***************************************************************************)
(* parse_vault: the term key of a heading.                                 *)
(***************************************************************************)
Seasons == {"Spring", "Fall", "Summer", "Winter"}
Digits == {"0", "1", "2", "3", "4", "5", "6", "7", "8", "9"}

Lower(season) ==
    CASE season = "Spring" -> "spring"
      [] season = "Fall" -> "fall"
      [] season = "Summer" -> "summer"
      [] season = "Winter" -> "winter"
      [] OTHER -> season

\* The places where the pattern <FW(>(Spring|Fall|Summer|Winter) (\d{4})<FW)> matches;
\* the tokens "FW(" and "FW)" are the full-width parentheses U+FF08 and U+FF09.
TermMatches(text) ==
    {i \in 1..(Len(text) - 7) :
        /\ text[i] = "FW("
        /\ text[i + 1] \in Seasons
        /\ text[i + 2] = " "
        /\ \A k \in 3..6 : text[i + k] \in Digits
        /\ text[i + 7] = "FW)"}

\* A key built from the first two digits of the year.
TermNameFirstDigits(text) ==
    IF TermMatches(text) = {} THEN <<"unknown">>
    ELSE LET i == CHOOSE m \in TermMatches(text) : \A n \in TermMatches(text) : m <= n
         IN <<text[i + 3], text[i + 4], Lower(text[i + 1])>>

\* re.search takes the leftmost match; the key is year[-2:] + season.lower().
TermName(text) ==
    IF TermMatches(text) = {} THEN <<"unknown">>
    ELSE LET i == CHOOSE m \in TermMatches(text) : \A n \in TermMatches(text) : m <= n
         IN <<text[i + 5], text[i + 6], Lower(text[i + 1])>>

\* One course <li> of a term's list: its announcements, the last one kept.
Announcement(block) ==
    IF block = None \/ Val(block) = <<>> THEN None
    ELSE LET ann == Val(block)[Len(Val(block))]
         IN Some([content |-> ann.text, url |-> PortalUrl(ann.href)])

RECURSIVE CoursesOf(_)
CoursesOf(items) ==
    IF items = <<>> THEN <<>>
    ELSE LET li == Head(items)
             rest == CoursesOf(Tail(items))
         IN IF li.link = None THEN rest
            ELSE IF Val(li.link).announcement THEN rest
            ELSE <<[name |-> Val(li.link).text,
                    url |-> PortalUrl(Val(li.link).href),
                    announcement |-> Announcement(li.block)]>> \o rest

\* The courses under one heading: its anchor's id names the <div> that lists them.
TermCourses(heading, divs) ==
    IF heading.anchor = None THEN <<>>
    ELSE IF ~Val(heading.anchor).matches THEN <<>>
    ELSE IF Val(heading.anchor).id \notin DOMAIN divs THEN <<>>
    ELSE CoursesOf(divs[Val(heading.anchor).id])

\* The loop over the term headings: courses[term_name] = [] and its appends.
RECURSIVE VaultIndex(_, _, _)
VaultIndex(headings, divs, courses) ==
    IF headings = <<>> THEN courses
    ELSE VaultIndex(Tail(headings), divs,
                    DictSet(courses, TermName(Head(headings).text),
                            TermCourses(Head(headings), divs)))

\* What parse_vault returns for a response: [] , None or the index.
ParseVault(resp) ==
    IF resp.status # 200 THEN [kind |-> "list"]
    ELSE IF ~resp.xml THEN [kind |-> "none"]
    ELSE IF resp.headings = None THEN [kind |-> "list"]
    ELSE [kind |-> "dict", map |-> VaultIndex(Val(resp.headings), resp.divs, <<>>)]

(***************************************************************************)
(* extract_sidebar_links: the menu of a course page.                       *)
(***************************************************************************)
\* The URL a menu link gets: the Announcements link is rebuilt from course_id.
LinkUrl(a, courseId) ==
    IF "Announcements" \in Range(a.text) /\ courseId # None
    THEN <<BaseUrl, "announcement", Val(courseId)>>
    ELSE PortalUrl(a.href)

RECURSIVE SidebarLoop(_, _, _, _)
SidebarLoop(items, courseId, current, menu) ==
    IF items = <<>> THEN menu
    ELSE LET li == Head(items)
         IN IF li.h3 # None
            THEN SidebarLoop(Tail(items), courseId, li.h3,
                             DictSet(menu, Val(li.h3), [kind |-> "list", links |-> <<>>]))
            ELSE IF li.a = None
            THEN SidebarLoop(Tail(items), courseId, current, menu)
            ELSE LET link == [title |-> Val(li.a).text,
                              url |-> LinkUrl(Val(li.a), courseId)]
                 IN \* "if current_category": None and the empty text are both false
                    IF current # None /\ Val(current) # <<>>
                    THEN SidebarLoop(Tail(items), courseId, current,
                             DictSet(menu, Val(current),
                                 [kind |-> "list",
                                  links |-> Append(menu[DictGet(menu, Val(current))][2].links,
                                                   link)]))
                    ELSE SidebarLoop(Tail(items), courseId, current,
                             DictSet(menu, link.title, [kind |-> "str", url |-> link.url]))

ExtractSidebarLinks(doc) ==
    IF doc.menu = None THEN <<>>
    ELSE SidebarLoop(Val(doc.menu), doc.courseId, None, <<>>)

(***************************************************************************)
(* extract_file_structure: the entries of a content page.                  *)
(***************************************************************************)
\* An href is a fragment (#...), or relative to the portal, or absolute.
FileUrl(href) ==
    IF href.kind = "abs" THEN <<href.host, href.path>> ELSE <<BaseUrl, href.path>>

RECURSIVE FilesOf(_)
FilesOf(lis) ==
    IF lis = <<>> THEN <<>>
    ELSE LET a == Head(lis)
             rest == FilesOf(Tail(lis))
         IN IF a = None THEN rest
            ELSE IF Val(a).href.kind = "frag" \/ Val(a).href.close THEN rest
            ELSE IF Val(a).text = <<>> THEN rest
            ELSE <<[name |-> Val(a).text, url |-> FileUrl(Val(a).href)]>> \o rest

RECURSIVE FileStructure(_, _)
FileStructure(items, acc) ==
    IF items = <<>> THEN acc
    ELSE LET item == Head(items)
         IN IF item.h3 = None THEN FileStructure(Tail(items), acc)
            ELSE FileStructure(Tail(items),
                     DictSet(acc, Val(item.h3),
                             [text |-> IF item.details = None THEN "" ELSE Val(item.details),
                              files |-> FilesOf(item.lis)]))

ExtractFileStructure(items) == FileStructure(items, <<>>)

(***************************************************************************)
(* The remote portal the crawler is run against: one listing, three        *)
(* courses, their pages and files.                                         *)
(***************************************************************************)
T25spring == <<"2", "5", "spring">>
T24fall == <<"2", "4", "fall">>
\* A term the portal does not list.
T23fall == <<"2", "3", "fall">>
TermCodes == {T25spring, T24fall, T23fall}

CourseLi(text, href) ==
    [link |-> Some([text |-> text, href |-> href, announcement |-> FALSE]), block |-> None]

VaultResponse ==
    [status |-> 200, xml |-> TRUE,
     headings |-> Some(<<
        [text |-> <<"2025", "FW(", "Spring", " ", "2", "0", "2", "5", "FW)">>,
         anchor |-> Some([matches |-> TRUE, id |-> "termCourses__1_1"])],
        [text |-> <<"2024", "FW(", "Fall", " ", "2", "0", "2", "4", "FW)">>,
         anchor |-> Some([matches |-> TRUE, id |-> "termCourses__2_1"])],
        [text |-> <<"Organizations">>, anchor |-> None] >>),
     divs |-> ("termCourses__1_1" :> <<
                  CourseLi(<<"CS", " ", "A">>, "/course/A"),
                  [link |-> Some([text |-> <<"News">>, href |-> "/announcement/1",
                                  announcement |-> TRUE]),
                   block |-> None],
                  [link |-> Some([text |-> <<"CS", " ", "B">>, href |-> "/course/B",
                                  announcement |-> FALSE]),
                   block |-> Some(<<[text |-> <<"Exam">>, href |-> "/ann/1"],
                                    [text |-> <<"Room">>, href |-> "/ann/2"]>>)] >>)
              @@ ("termCourses__2_1" :> << CourseLi(<<"MA", "C">>, "/course/C") >>)]

\* The answers of the listing endpoint: the listing, an error status, a body that is
\* no XML, an XML envelope with no text.
VaultResponses ==
    [ok |-> VaultResponse,
     status |-> [VaultResponse EXCEPT !.status = 500],
     malformed |-> [VaultResponse EXCEPT !.xml = FALSE],
     empty |-> [VaultResponse EXCEPT !.headings = None]]

Heading(name) == [h3 |-> Some(name), a |-> None]
Link(name, href) == [h3 |-> None, a |-> Some([text |-> name, href |-> href])]

\* The landing page of each course: its content menu and the course_id in its body.
CoursePages ==
    (PortalUrl("/course/A") :>
        [courseId |-> Some("_1_1"),
         menu |-> Some(<< Heading(<<"Course", " ", "Content">>),
                          Link(<<"Week", " ", "1">>, "/page/p1"),
                          Link(<<"Labs">>, "/page/p2"),
                          Heading(<<"Info">>),
                          Link(<<"Syllabus">>, "/page/p3") >>)])
    @@ (PortalUrl("/course/B") :>
        [courseId |-> Some("_2_1"),
         menu |-> Some(<< Heading(<<"Home">>),
                          Link(<<"Announcements">>, "/page/b-ann") >>)])
    @@ (PortalUrl("/course/C") :>
        [courseId |-> None,
         menu |-> Some(<< Link(<<"Home", " ", "Page">>, "/page/c-home"),
                          Heading(<<"Content">>),
                          Link(<<"Notes">>, "/page/p5") >>)])

\* The CAS login page an expired session is redirected to: it holds no content menu.
LoginPage == [courseId |-> None, menu |-> None]

Rel(path) == [kind |-> "rel", close |-> FALSE, host |-> BaseUrl, path |-> path]

\* The content pages: their "read" items, each with a heading, details and file links.
PageDocs ==
    (PortalUrl("/page/p1") :> <<
        [h3 |-> Some(<<"Week", " ", "1">>), details |-> Some("intro"),
         lis |-> << Some([text |-> <<"slides", " ", "1.pdf">>, href |-> Rel("/file/f1")]),
                    Some([text |-> <<"hide">>,
                          href |-> [kind |-> "frag", close |-> FALSE,
                                    host |-> BaseUrl, path |-> "#"]]),
                    None,
                    Some([text |-> <<"hw.zip">>,
                          href |-> [kind |-> "abs", close |-> FALSE,
                                    host |-> "https://cdn.example", path |-> "/f2"]]) >>],
        [h3 |-> None, details |-> Some("banner"), lis |-> <<>>],
        [h3 |-> Some(<<"Week", " ", "2">>), details |-> None,
         lis |-> << Some([text |-> <<"x">>, href |-> [Rel("/close/1") EXCEPT !.close = TRUE]]),
                    Some([text |-> <<>>, href |-> Rel("/file/unnamed")]) >>] >>)
    @@ (PortalUrl("/page/p2") :> <<>>)
    @@ (PortalUrl("/page/p3") :> <<
        [h3 |-> Some(<<"Syllabus">>), details |-> Some("rules"), lis |-> <<>>] >>)
    @@ (<<BaseUrl, "announcement", "_2_1">> :> <<
        [h3 |-> Some(<<"Exam">>), details |-> Some("room 101"), lis |-> <<>>] >>)
    @@ (PortalUrl("/page/p5") :> <<
        [h3 |-> Some(<<"Notes">>), details |-> Some("notes"), lis |-> <<>>] >>)

\* The body of a file, in chunks, and the body of an error answer.
FileBody(url) == <<<<url, 1>>, <<url, 2>>>>
ErrorBody(url) == <<<<url, "error page">>>>

(***************************************************************************)
(* The state of one process run of crawler.py, the mirror on disk and the  *)
(* environment the run meets.                                              *)
(***************************************************************************)
VARIABLES
    pc,        \* the position of the program
    exc,       \* the exception that ended the process, "" when none did
    run,       \* 1 for the first process run, 2 for a second one
    env,       \* the environment: free, or a fixture that fixes every answer
    terms,     \* the list of terms passed to crawl
    dirs,      \* the directories of the mirror (paths below ./bb-vault/)
    files,     \* the files of the mirror: path -> content
    login,     \* login's locals: cas_login_url, the CAS form, execution, the return value
    reqs,      \* the requests issued in this run, in order
    cleared,   \* crawl has destroyed and recreated the mirror root in this run
    vault,     \* crawl's local: what parse_vault returned
    courses,   \* crawl's local: vault[term]
    sessions,  \* crawl's local: what parse_course returned
    pages,     \* crawl's local: the value of the current menu item
    entries,   \* crawl's local: what parse_page returned
    cur,       \* the loop counters of crawl: term, course, session, page, entry, file
    dl,        \* download_file's locals and its return value
    hist,      \* what parse_course and parse_page returned in this run, by URL, and
               \* the course URLs that were answered with the CAS login page
    snapshot,  \* the mirror as the first run left it
    arg,       \* the argument of a function that is called on its own, None otherwise
    res        \* what that function has built or returned so far

vars == <<pc, exc, run, env, terms, dirs, files, login, reqs, cleared, vault, courses,
          sessions, pages, entries, cur, dl, hist, snapshot, arg, res>>

crawlLocals == <<vault, courses, sessions, pages, entries>>
mirror == <<dirs, files>>
fixed == <<run, env, terms, snapshot, arg, res>>

(***************************************************************************)
(* The environment.  A free environment may answer a request in any way;   *)
(* a fixture answers "ok" but for the requests it lists, and answers the   *)
(* same in every run.                                                      *)
(***************************************************************************)
Outcomes(key, all) ==
    IF env.mode = "free" THEN all
    ELSE IF key \in DOMAIN env.faults THEN {env.faults[key]}
    ELSE {"ok"}

StorageOutcomes == {"ok", "fault"}
\* A page request: the page, a redirect to the CAS login page (the session expired),
\* a transport error or an error status.
PageOutcomes == {"ok", "login", "fail"}
\* A file request: a success status, an error status, a TLS error, another transport error.
GetOutcomes == {"ok", "status", "ssl", "fail"}
\* Streaming to the file: done, open() failed, the stream or the disk failed midway.
WriteOutcomes == {"ok", "openfail", "partial"}
VaultOutcomes == {"ok", "status", "malformed", "empty", "fail"}

EmptyFiles == [p \in {} |-> <<>>]

\* os.makedirs(path, exist_ok=True): the error it raises for a path through a file.
MkdirBlocked(path) == \E q \in Prefixes(path) : q \in DOMAIN files
Mkdirs(path) == dirs \cup Prefixes(path)

\* field: whether the CAS form that was fetched held an execution field.
NoLogin == [casUrl |-> None, form |-> None, execution |-> None, ret |-> "none",
            field |-> "unknown"]
\* login has returned: its locals are gone, its return value is kept.
Returned(l, ret) == [NoLogin EXCEPT !.ret = ret, !.field = l.field]
\* write: how the streaming to the file went; written: what the file then holds.
NoDownload == [url |-> None, path |-> None, attempts |-> <<>>, body |-> None,
               write |-> "none", written |-> None, ret |-> "none"]
NoCursor == [t |-> 0, c |-> 0, s |-> 0, p |-> 0, e |-> 0, f |-> 0]
Unset == [kind |-> "unset"]
NoHist == [nav |-> <<>>, page |-> <<>>, expired |-> {}]

\* The lists of requested terms: no term twice, at most MaxTerms of them.
TermLists ==
    {l \in UNION {[1..n -> TermCodes] : n \in 0..MaxTerms} :
        \A i, j \in DOMAIN l : i # j => l[i] # l[j]}

\* What an earlier run may have left under ./bb-vault/: nothing at all, or a tree.
StaleDirs == {<<>>, <<<<"old">>>>}
StaleFiles == (<<<<"old">>, <<"stale.txt">>>> :> <<<<"stale", 1>>>>)

InitRun ==
    /\ pc = "login_open"
    /\ exc = ""
    /\ run = 1
    /\ login = NoLogin
    /\ reqs = <<>>
    /\ cleared = FALSE
    /\ vault = Unset /\ courses = <<>> /\ sessions = Unset
    /\ pages = Unset /\ entries = Unset
    /\ cur = NoCursor
    /\ dl = NoDownload
    /\ hist = NoHist
    /\ snapshot = Unset
    /\ arg = None /\ res = None
    /\ \/ dirs = {} /\ files = EmptyFiles
       \/ dirs = StaleDirs /\ files = StaleFiles

\* The program is run once, in any environment.
Init ==
    /\ InitRun
    /\ env = [mode |-> "free"]
    /\ terms \in TermLists

\* An uncaught exception ends the process.
Crash(e) == pc' = "crashed" /\ exc' = e

Issue(kind, url) == reqs' = Append(reqs, <<kind, url>>)

(***************************************************************************)
(* login                                                                   *)
(***************************************************************************)
\* with open(self.user_info_path) ...: the credentials are read, or the read raises.
LoginLoadCredentials ==
    /\ pc = "login_open"
    /\ \E o \in StorageOutcomes :
          IF o = "ok" THEN pc' = "login_get_bb" /\ exc' = exc ELSE Crash("OSError")
    /\ UNCHANGED <<fixed, mirror, login, reqs, cleared, crawlLocals, cur, dl, hist>>

\* cas_login_url: the final URL if it is on the CAS host, else one built from cas_url.
CasLoginUrl(landed) ==
    IF landed = "cas" THEN <<"https://cas.sustech.edu.cn/cas/login", "redirected">>
    ELSE <<"https://cas.sustech.edu.cn/cas/login", "service=quote(login_url)">>

\* bb_response = self.session.get(self.login_url)
LoginRequestPage ==
    /\ pc = "login_get_bb"
    /\ Issue("login_page", <<BaseUrl, "/webapps/login/">>)
    /\ \E o \in {"cas", "portal", "fail"} :
          IF o = "fail" THEN Crash("RequestException") /\ login' = login
          ELSE /\ pc' = "login_get_cas" /\ exc' = exc
               /\ login' = [login EXCEPT !.casUrl = Some(CasLoginUrl(o))]
    /\ UNCHANGED <<fixed, mirror, cleared, crawlLocals, cur, dl, hist>>

\* The CAS forms: with an execution field and its value, with the field and no
\* value attribute, without the field.
CasForms ==
    {[execution |-> Some([value |-> Some("e1s1")])],
     [execution |-> Some([value |-> None])],
     [execution |-> None]}

\* cas_response = self.session.get(cas_login_url); cas_soup = BeautifulSoup(...)
LoginFetchCasForm ==
    /\ pc = "login_get_cas"
    /\ Issue("cas_form", <<"https://cas.sustech.edu.cn/cas/login">>)
    /\ \/ \E form \in CasForms :
             /\ login' = [login EXCEPT
                              !.form = Some(form),
                              !.field = IF form.execution = None THEN "absent"
                                        ELSE "present"]
             /\ pc' = "login_extract" /\ exc' = exc
       \/ Crash("RequestException") /\ login' = login
    /\ UNCHANGED <<fixed, mirror, cleared, crawlLocals, cur, dl, hist>>

\* "if not execution": find() returned None.
ExecutionMissing(form) == form.execution = None

\* A login that reports success when the form holds no execution field.
MissingExecutionResultTrue == "true"

\* What login returns when the form holds no execution field.
MissingExecutionResult == "false"

\* execution = cas_soup.find("input", {"name": "execution"}) and the early return.
LoginExtractToken ==
    /\ pc = "login_extract"
    /\ IF ExecutionMissing(Val(login.form))
       THEN /\ login' = Returned(login, MissingExecutionResult)
            /\ pc' = "main_if" /\ exc' = exc
       ELSE IF Val(login.form).execution = None
       THEN \* execution.get("value") on None
            Crash("AttributeError") /\ login' = login
       ELSE /\ login' = [login EXCEPT
                            !.execution = Some(Val(Val(login.form).execution).value)]
            /\ pc' = "login_post" /\ exc' = exc
    /\ UNCHANGED <<fixed, mirror, reqs, cleared, crawlLocals, cur, dl, hist>>

\* The answer to the credential POST holds a logout marker, or does not.
LoginSucceeded(body) == body = "logout"

\* cas_login_response = self.session.post(cas_login_url, data=cas_login_data)
LoginSubmit ==
    /\ pc = "login_post"
    /\ Issue("cas_post", <<"https://cas.sustech.edu.cn/cas/login">>)
    /\ \E body \in {"logout", "rejected", "fail"} :
          IF body = "fail" THEN Crash("RequestException") /\ login' = login
          ELSE /\ login' = Returned(login, IF LoginSucceeded(body) THEN "true"
                                            ELSE "false")
               /\ pc' = "main_if" /\ exc' = exc
    /\ UNCHANGED <<fixed, mirror, cleared, crawlLocals, cur, dl, hist>>

\* A guard that takes any returned value for a success.
LoginTruthyAny(ret) == ret # "none"

\* "if crawler.login():"
LoginTruthy(ret) == ret = "true"

\* __main__: crawl runs only when login returned True.
Main ==
    /\ pc = "main_if"
    /\ pc' = IF LoginTruthy(login.ret) THEN "crawl_clear" ELSE "exit"
    /\ UNCHANGED <<exc, fixed, mirror, login, reqs, cleared, crawlLocals, cur, dl, hist>>

(***************************************************************************)
(* crawl                                                                   *)
(***************************************************************************)
\* shutil.rmtree(self.base_path); os.makedirs(self.base_path): what is left of the mirror.
ClearDirs(d) == {<<>>}
\* A crawl that recreates the root and never removes what is in it.
ClearFilesKeep(f) == f
ClearFiles(f) == EmptyFiles

CrawlClear ==
    /\ pc = "crawl_clear"
    /\ \E o1 \in Outcomes(<<"rmtree", <<>>>>, StorageOutcomes),
          o2 \in Outcomes(<<"mkdir", <<>>>>, StorageOutcomes) :
          IF dirs # {} /\ o1 = "fault"
          THEN Crash("OSError") /\ UNCHANGED <<mirror, cleared>>
          ELSE IF o2 = "fault"
          THEN Crash("OSError") /\ dirs' = {} /\ files' = EmptyFiles /\ cleared' = cleared
          ELSE /\ dirs' = ClearDirs(dirs)
               /\ files' = ClearFiles(files)
               /\ cleared' = TRUE
               /\ pc' = "crawl_vault" /\ exc' = exc
    /\ UNCHANGED <<fixed, login, reqs, crawlLocals, cur, dl, hist>>

\* vault = self.parse_vault()
CrawlParseVault ==
    /\ pc = "crawl_vault"
    /\ Issue("vault", <<BaseUrl, "/webapps/portal/execute/tabs/tabAction">>)
    /\ \E o \in Outcomes(<<"vault", <<>>>>, VaultOutcomes) :
          IF o = "fail" THEN Crash("RequestException") /\ vault' = vault
          ELSE /\ vault' = ParseVault(VaultResponses[o])
               /\ pc' = "term" /\ exc' = exc
    /\ UNCHANGED <<fixed, mirror, login, cleared, courses, sessions, pages, entries,
                   cur, dl, hist>>

\* courses = vault[term]
VaultLookup(v, term) ==
    IF v.kind # "dict" THEN [exc |-> "TypeError", value |-> <<>>]
    ELSE IF term \notin DictKeys(v.map) THEN [exc |-> "KeyError", value |-> <<>>]
    ELSE [exc |-> "", value |-> v.map[DictGet(v.map, term)][2]]

\* The paths of the directories crawl is in.
TermPath == <<terms[cur.t]>>
CoursePath == Append(TermPath, Sanitize(courses[cur.c].name))
SessionPath == Append(CoursePath, Sanitize(sessions.map[cur.s][1]))
PagePath == Append(SessionPath, Sanitize(pages.links[cur.p].title))
EntryPath == Append(PagePath, entries.map[cur.e][1])

\* "for term in terms:" up to the lookup of the term's courses.
CrawlTerm ==
    /\ pc = "term"
    /\ IF cur.t = Len(terms)
       THEN /\ pc' = "exit"
            /\ UNCHANGED <<exc, dirs, courses, cur>>
       ELSE LET term == terms[cur.t + 1]
                found == VaultLookup(vault, term)
            IN \E o \in Outcomes(<<"mkdir", <<term>>>>, StorageOutcomes) :
                  /\ cur' = [cur EXCEPT !.t = @ + 1, !.c = 0]
                  /\ IF o = "fault" \/ MkdirBlocked(<<term>>)
                     THEN Crash("OSError") /\ UNCHANGED <<dirs, courses>>
                     ELSE /\ dirs' = Mkdirs(<<term>>)
                          /\ IF found.exc # ""
                             THEN Crash(found.exc) /\ courses' = courses
                             ELSE /\ courses' = found.value
                                  /\ pc' = "course" /\ exc' = exc
    /\ UNCHANGED <<fixed, files, login, reqs, cleared, vault, sessions, pages, entries,
                   dl, hist>>

\* parse_course: None for a failed exchange, else the menu of the page that came.
ParseCourse(url, o) ==
    IF o = "fail" THEN [kind |-> "none"]
    ELSE IF o = "login" THEN [kind |-> "dict", map |-> ExtractSidebarLinks(LoginPage)]
    ELSE IF url \notin DOMAIN CoursePages THEN [kind |-> "none"]
    ELSE [kind |-> "dict", map |-> ExtractSidebarLinks(CoursePages[url])]

\* "for course in courses:" up to "sessions.items()".
CrawlCourse ==
    /\ pc = "course"
    /\ IF cur.c = Len(courses)
       THEN /\ pc' = "term"
            /\ UNCHANGED <<exc, dirs, reqs, sessions, cur, hist>>
       ELSE LET course == courses[cur.c + 1]
                path == Append(TermPath, Sanitize(course.name))
            IN \E o \in Outcomes(<<"mkdir", path>>, StorageOutcomes),
                  r \in Outcomes(<<"course", course.url>>, PageOutcomes),
                  w \in Outcomes(<<"cache", <<>>>>, StorageOutcomes) :
                  /\ cur' = [cur EXCEPT !.c = @ + 1, !.s = 0]
                  /\ IF o = "fault" \/ MkdirBlocked(path)
                     THEN Crash("OSError") /\ UNCHANGED <<dirs, reqs, sessions, hist>>
                     ELSE /\ dirs' = Mkdirs(path)
                          /\ Issue("course", course.url)
                          /\ IF r # "fail" /\ w = "fault"
                             THEN \* cache/debug-site-page.html cannot be written
                                  Crash("OSError") /\ UNCHANGED <<sessions, hist>>
                             ELSE LET got == ParseCourse(course.url, r)
                                  IN /\ sessions' = got
                                     /\ hist' = [hist EXCEPT
                                                    !.nav = (course.url :> got) @@ @,
                                                    !.expired = IF r = "login"
                                                                THEN @ \cup {course.url}
                                                                ELSE @]
                                     /\ IF got.kind = "none"
                                        THEN Crash("AttributeError")
                                        ELSE pc' = "session" /\ exc' = exc
    /\ UNCHANGED <<fixed, files, login, cleared, vault, courses, pages, entries, dl>>

\* "for session_name, pages in sessions.items():"
CrawlSession ==
    /\ pc = "session"
    /\ IF cur.s = Len(sessions.map)
       THEN /\ pc' = "course"
            /\ UNCHANGED <<exc, dirs, pages, cur>>
       ELSE LET item == sessions.map[cur.s + 1]
                path == Append(CoursePath, Sanitize(item[1]))
            IN \E o \in Outcomes(<<"mkdir", path>>, StorageOutcomes) :
                  /\ cur' = [cur EXCEPT !.s = @ + 1, !.p = 0]
                  /\ IF o = "fault" \/ MkdirBlocked(path)
                     THEN Crash("OSError") /\ UNCHANGED <<dirs, pages>>
                     ELSE /\ dirs' = Mkdirs(path)
                          /\ pages' = item[2]
                          /\ pc' = "page" /\ exc' = exc
    /\ UNCHANGED <<fixed, files, login, reqs, cleared, vault, courses, sessions, entries,
                   dl, hist>>

\* parse_page: None for a failed exchange, else the entries of the page that came.
ParsePage(url, o) ==
    IF o = "fail" THEN [kind |-> "none"]
    ELSE IF o = "login" THEN [kind |-> "dict", map |-> ExtractFileStructure(<<>>)]
    ELSE IF url \notin DOMAIN PageDocs THEN [kind |-> "none"]
    ELSE [kind |-> "dict", map |-> ExtractFileStructure(PageDocs[url])]

\* A test that takes only the empty dict for "no entries".
FalsyEmptyOnly(v) == v.kind # "none" /\ v.map = <<>>

\* "if not entries": None and the empty dict.
Falsy(v) == v.kind = "none" \/ v.map = <<>>

\* "for page in pages:" up to "if not entries: continue".
CrawlPage ==
    /\ pc = "page"
    /\ IF pages.kind = "str"
       THEN \* the characters of a URL are iterated: page["title"] on a str
            /\ Crash("TypeError")
            /\ cur' = [cur EXCEPT !.p = @ + 1, !.e = 0]
            /\ UNCHANGED <<dirs, reqs, entries, hist>>
       ELSE IF cur.p = Len(pages.links)
       THEN /\ pc' = "session"
            /\ UNCHANGED <<exc, dirs, reqs, entries, cur, hist>>
       ELSE LET page == pages.links[cur.p + 1]
                path == Append(SessionPath, Sanitize(page.title))
            IN \E o \in Outcomes(<<"mkdir", path>>, StorageOutcomes),
                  r \in Outcomes(<<"page", page.url>>, PageOutcomes) :
                  /\ cur' = [cur EXCEPT !.p = @ + 1, !.e = 0]
                  /\ IF o = "fault" \/ MkdirBlocked(path)
                     THEN Crash("OSError") /\ UNCHANGED <<dirs, reqs, entries, hist>>
                     ELSE LET got == ParsePage(page.url, r)
                          IN /\ dirs' = Mkdirs(path)
                             /\ Issue("page", page.url)
                             /\ entries' = got
                             /\ hist' = [hist EXCEPT !.page = (page.url :> got) @@ @]
                             /\ pc' = IF Falsy(got) THEN "page" ELSE "entry"
                             /\ exc' = exc
    /\ UNCHANGED <<fixed, files, login, cleared, vault, courses, sessions, pages, dl>>

TextFile(text) == <<<<"text", text>>>>

\* "for entry_name, entry in entries.items():" up to the write of text.txt.
CrawlEntry ==
    /\ pc = "entry"
    /\ IF entries.kind = "none"
       THEN \* entries.items() on None
            Crash("AttributeError") /\ UNCHANGED <<mirror, cur>>
       ELSE IF cur.e = Len(entries.map)
       THEN /\ pc' = "page"
            /\ UNCHANGED <<exc, mirror, cur>>
       ELSE LET item == entries.map[cur.e + 1]
                path == Append(PagePath, item[1])
                textPath == Append(path, <<"text.txt">>)
            IN \E o \in Outcomes(<<"mkdir", path>>, StorageOutcomes),
                  w \in Outcomes(<<"write", textPath>>, StorageOutcomes) :
                  /\ cur' = [cur EXCEPT !.e = @ + 1, !.f = 0]
                  /\ IF o = "fault" \/ MkdirBlocked(path)
                     THEN Crash("OSError") /\ UNCHANGED mirror
                     ELSE /\ dirs' = Mkdirs(path)
                          /\ IF item[2].text = ""
                             THEN pc' = "file" /\ exc' = exc /\ files' = files
                             ELSE IF w = "fault" \/ textPath \in dirs
                             THEN Crash("OSError") /\ files' = files
                             ELSE /\ files' = (textPath :> TextFile(item[2].text)) @@ files
                                  /\ pc' = "file" /\ exc' = exc
    /\ UNCHANGED <<fixed, login, reqs, cleared, crawlLocals, dl, hist>>

\* "for file in entry.get("files", []):" and the entry into download_file, which
\* replaces the blanks of the file name once more.
CrawlFile ==
    /\ pc = "file"
    /\ LET list == entries.map[cur.e][2].files
       IN IF cur.f = Len(list)
          THEN \* the locals of the last download_file call are gone
               /\ pc' = "entry"
               /\ dl' = NoDownload
               /\ cur' = cur
          ELSE LET file == list[cur.f + 1]
                   path == Append(EntryPath, Sanitize(Sanitize(file.name)))
               IN /\ cur' = [cur EXCEPT !.f = @ + 1]
                  /\ dl' = [NoDownload EXCEPT !.url = Some(file.url), !.path = Some(path)]
                  /\ pc' = "dl_get1"
    /\ UNCHANGED <<exc, fixed, mirror, login, reqs, cleared, crawlLocals, hist>>

(***************************************************************************)
(* download_file                                                           *)
(***************************************************************************)
\* download_file returns; crawl drops the value and goes on with the next file.
DownloadReturn(ret, attempts, body, how, written) ==
    /\ dl' = [dl EXCEPT !.ret = ret, !.attempts = attempts, !.body = body,
                        !.write = how, !.written = written]
    /\ pc' = "file"

\* The first attempt, verify=True, then raise_for_status(): what leaves the try block.
\* "ssl" is requests.exceptions.SSLError, "other" any other RequestException.
FirstAttemptRaises(o) ==
    CASE o = "ok" -> "none"
      [] o = "status" -> "other"
      [] o = "ssl" -> "ssl"
      [] o = "fail" -> "other"

\* response = self.session.get(url, stream=True, timeout=10, verify=True)
DownloadGet ==
    /\ pc = "dl_get1"
    /\ Issue("get_verified", Val(dl.url))
    /\ \E o \in Outcomes(<<"get_verified", Val(dl.url)>>, GetOutcomes) :
          LET tried == Append(dl.attempts, [verify |-> TRUE, outcome |-> o])
          IN CASE FirstAttemptRaises(o) = "none" ->
                    /\ dl' = [dl EXCEPT !.attempts = tried,
                                        !.body = Some(FileBody(Val(dl.url)))]
                    /\ pc' = "dl_write"
               [] FirstAttemptRaises(o) = "ssl" ->
                    /\ dl' = [dl EXCEPT !.attempts = tried]
                    /\ pc' = "dl_get2"
               [] OTHER -> DownloadReturn("false", tried, None, "none", None)
    /\ UNCHANGED <<exc, fixed, mirror, login, cleared, crawlLocals, cur, hist>>

\* The retry, verify=False, with no raise_for_status(): what leaves its try block.
RetryRaises(o) ==
    CASE o = "ok" -> "none"
      [] o = "status" -> "none"
      [] o = "ssl" -> "other"
      [] o = "fail" -> "other"

\* The body of a response: the file's for a success status, an error page otherwise.
ResponseBody(url, o) == IF o = "ok" THEN FileBody(url) ELSE ErrorBody(url)

\* response = self.session.get(url, stream=True, timeout=10, verify=False)
DownloadRetry ==
    /\ pc = "dl_get2"
    /\ Issue("get_unverified", Val(dl.url))
    /\ \E o \in Outcomes(<<"get_unverified", Val(dl.url)>>, GetOutcomes) :
          LET tried == Append(dl.attempts, [verify |-> FALSE, outcome |-> o])
          IN IF RetryRaises(o) = "none"
             THEN /\ dl' = [dl EXCEPT !.attempts = tried,
                                      !.body = Some(ResponseBody(Val(dl.url), o))]
                  /\ pc' = "dl_write"
             ELSE DownloadReturn("false", tried, None, "none", None)
    /\ UNCHANGED <<exc, fixed, mirror, login, cleared, crawlLocals, cur, hist>>

\* "with open(save_path, "wb") ... file.write(chunk)": the chunks that reach the file
\* before the stream or the disk fails (all but the last one, here).
DownloadWrite ==
    /\ pc = "dl_write"
    /\ \E o \in Outcomes(<<"write", Val(dl.path)>>, WriteOutcomes) :
          LET path == Val(dl.path)
              body == Val(dl.body)
              part == SubSeq(body, 1, Len(body) - 1)
          IN IF o = "openfail" \/ path \in dirs
             THEN /\ DownloadReturn("false", dl.attempts, dl.body, "openfail", None)
                  /\ files' = files
             ELSE IF o = "partial"
             THEN /\ DownloadReturn("false", dl.attempts, dl.body, "partial", Some(part))
                  /\ files' = (path :> part) @@ files
             ELSE /\ DownloadReturn("true", dl.attempts, dl.body, "ok", Some(body))
                  /\ files' = (path :> body) @@ files
    /\ UNCHANGED <<exc, fixed, dirs, login, reqs, cleared, crawlLocals, cur, hist>>

(***************************************************************************)
(* The program, and the program run a second time against the same         *)
(* environment.                                                            *)
(***************************************************************************)
Next ==
    \/ LoginLoadCredentials
    \/ LoginRequestPage
    \/ LoginFetchCasForm
    \/ LoginExtractToken
    \/ LoginSubmit
    \/ Main
    \/ CrawlClear
    \/ CrawlParseVault
    \/ CrawlTerm
    \/ CrawlCourse
    \/ CrawlSession
    \/ CrawlPage
    \/ CrawlEntry
    \/ CrawlFile
    \/ DownloadGet
    \/ DownloadRetry
    \/ DownloadWrite

Spec == Init /\ [][Next]_vars

(***************************************************************************)
(* A second run of the program against a fixture: the same requested       *)
(* terms, the same answer to every request and storage operation.          *)
(***************************************************************************)
CourseDir(term, name) == <<term, Sanitize(name)>>
Week1Dir ==
    <<T25spring, <<"CS", "_", "A">>, <<"Course", "_", "Content">>, <<"Week", "_", "1">>,
      <<"Week", " ", "1">>>>

\* The requests and storage operations a fixture may answer with a failure.
FaultChoices ==
    { <<<<"vault", <<>>>>, "malformed">>,
      <<<<"course", PortalUrl("/course/A")>>, "login">>,
      <<<<"course", PortalUrl("/course/B")>>, "fail">>,
      <<<<"course", PortalUrl("/course/C")>>, "login">>,
      <<<<"page", PortalUrl("/page/p1")>>, "fail">>,
      <<<<"page", PortalUrl("/page/p3")>>, "login">>,
      <<<<"get_verified", PortalUrl("/file/f1")>>, "ssl">>,
      <<<<"get_unverified", PortalUrl("/file/f1")>>, "status">>,
      <<<<"get_verified", <<"https://cdn.example", "/f2">>>>, "fail">>,
      <<<<"write", Append(Week1Dir, <<"slides", "_", "1.pdf">>)>>, "partial">>,
      <<<<"write", Append(Week1Dir, <<"text.txt">>)>>, "fault">>,
      <<<<"mkdir", CourseDir(T25spring, <<"CS", " ", "B">>)>>, "fault">>,
      <<<<"rmtree", <<>>>>, "fault">> }

NoFaults == [k \in {} |-> "ok"]

\* The fixtures with at most n failures.
RECURSIVE FaultPlans(_)
FaultPlans(n) ==
    IF n = 0 THEN {NoFaults}
    ELSE LET less == FaultPlans(n - 1)
         IN less \cup {(c[1] :> c[2]) @@ f : f \in less, c \in FaultChoices}

InitRerun ==
    /\ InitRun
    /\ env \in {[mode |-> "fixed", faults |-> f] : f \in FaultPlans(MaxFaults)}
    /\ terms \in TermLists

\* The process has ended and the program is started again.
Restart ==
    /\ pc \in {"exit", "crashed"}
    /\ run = 1
    /\ run' = 2
    /\ snapshot' = [kind |-> "taken", crawled |-> cleared, dirs |-> dirs, files |-> files]
    /\ pc' = "login_open"
    /\ exc' = ""
    /\ login' = NoLogin
    /\ reqs' = <<>>
    /\ cleared' = FALSE
    /\ vault' = Unset /\ courses' = <<>> /\ sessions' = Unset
    /\ pages' = Unset /\ entries' = Unset
    /\ cur' = NoCursor
    /\ dl' = NoDownload
    /\ hist' = NoHist
    /\ UNCHANGED <<env, terms, mirror, arg, res>>

NextRerun == Next \/ Restart

SpecRerun == InitRerun /\ [][NextRerun]_vars

(***************************************************************************)
(* A function called on its own: the program is not running, only the      *)
(* function's argument and what it has built so far change.                *)
(***************************************************************************)
idle == <<exc, run, env, terms, snapshot, dirs, files, login, reqs, cleared, vault,
          courses, sessions, pages, entries, cur, dl, hist>>

Idle(at) ==
    /\ pc = at
    /\ exc = ""
    /\ run = 1
    /\ env = [mode |-> "free"]
    /\ terms = <<>>
    /\ dirs = {} /\ files = EmptyFiles
    /\ login = NoLogin
    /\ reqs = <<>>
    /\ cleared = FALSE
    /\ vault = Unset /\ courses = <<>> /\ sessions = Unset
    /\ pages = Unset /\ entries = Unset
    /\ cur = NoCursor
    /\ dl = NoDownload
    /\ hist = NoHist
    /\ snapshot = Unset

(***************************************************************************)
(* extract_sidebar_links on any content menu, one direct child <li> of     *)
(* the menu per step: res is sidebar_menu after the items walked so far.   *)
(***************************************************************************)
\* The longest content menu.
MaxItems == 3

\* The direct children of the menu list: headings (one of them with no text), links,
\* an item with a heading and an anchor, an item with neither.
MenuItems ==
    { Heading(<<"Content">>), Heading(<<"Info">>), Heading(<<>>),
      Link(<<"Week", " ", "1">>, "/page/p1"),
      Link(<<"Labs">>, "/page/p2"),
      Link(<<"Announcements">>, "/page/ann"),
      [h3 |-> Some(<<"Tools">>), a |-> Some([text |-> <<"Help">>, href |-> "/help"])],
      [h3 |-> None, a |-> None] }

SidebarDocs ==
    {[courseId |-> c, menu |-> Some(items)] :
        c \in {None, Some("_1_1")},
        items \in UNION {[1..n -> MenuItems] : n \in 0..MaxItems}}

\* The page with the first n items of its menu.
MenuUpTo(doc, n) == [doc EXCEPT !.menu = Some(SubSeq(Val(@), 1, n))]

InitSidebar ==
    /\ Idle("sidebar")
    /\ arg \in {[doc |-> d, n |-> 0] : d \in SidebarDocs}
    /\ res = ExtractSidebarLinks(MenuUpTo(arg.doc, 0))

\* One turn of "for li in menu_ul.find_all("li", recursive=False):"
SidebarStep ==
    /\ pc = "sidebar"
    /\ arg.n < Len(Val(arg.doc.menu))
    /\ arg' = [arg EXCEPT !.n = @ + 1]
    /\ res' = ExtractSidebarLinks(MenuUpTo(arg.doc, arg.n + 1))
    /\ UNCHANGED <<pc, idle>>

\* "return sidebar_menu"
SidebarReturn ==
    /\ pc = "sidebar"
    /\ arg.n = Len(Val(arg.doc.menu))
    /\ pc' = "returned"
    /\ UNCHANGED <<idle, arg, res>>

NextSidebar == SidebarStep \/ SidebarReturn

SpecSidebar == InitSidebar /\ [][NextSidebar]_vars

(***************************************************************************)
(* parse_vault on a listing with one term heading, for any heading text    *)
(* built around something like <FW(>Season YYYY<FW)>.                       *)
(***************************************************************************)
\* The parts of a heading text: what stands for the opening parenthesis, the season,
\* the separator, the year and the closing parenthesis, and the text around them.
HeadingParts ==
    [before : {<<>>, <<"2025">>, <<"FW(">>,
               <<"FW(", "Fall", " ", "2", "0", "2", "4", "FW)">>},
     open : {"FW(", "("},
     season : Seasons \cup {"spring", "Autumn"},
     sep : {" ", "_"},
     year : {<<"2", "0", "2", "5">>, <<"1", "9", "9", "8">>, <<"2", "0", "2">>,
             <<"2", "0", "2", "5", "1">>, <<"2", "0", "x", "5">>},
     close : {"FW)", ")"},
     after : {<<>>, <<"term">>}]

\* term.get_text(strip=True) of the heading.
HeadingText(p) ==
    p.before \o <<p.open, p.season, p.sep>> \o p.year \o <<p.close>> \o p.after

\* The answer of the listing endpoint with that one heading and no course list.
HeadingResponse(p) ==
    [VaultResponse EXCEPT
        !.headings = Some(<<[text |-> HeadingText(p), anchor |-> None]>>)]

InitTerm ==
    /\ Idle("parse_vault")
    /\ arg \in HeadingParts
    /\ res = None

\* courses = self.parse_vault(), for that answer.
TermApply ==
    /\ pc = "parse_vault"
    /\ res' = ParseVault(HeadingResponse(arg))
    /\ pc' = "returned"
    /\ UNCHANGED <<idle, arg>>

NextTerm == TermApply

SpecTerm == InitTerm /\ [][NextTerm]_vars

(***************************************************************************)
(* The claims.                                                             *)
(***************************************************************************)
Requested(kind) == {reqs[i][2] : i \in {j \in DOMAIN reqs : reqs[j][1] = kind}}

\* The courses crawl has to visit: those of every requested term the index holds.
CoursesToVisit ==
    UNION {Range(VaultLookup(vault, terms[i]).value) : i \in DOMAIN terms}

\* C1: when parse_course returns None for a course, no exception leaves crawl, and
\* a crawl that returns has navigated every course of every requested term.
C1_NullNavigationIsLocal ==
    /\ ~(pc = "crashed" /\ exc = "AttributeError" /\ sessions.kind = "none")
    /\ (pc = "exit" /\ cleared) =>
          \A c \in CoursesToVisit : c.url \in Requested("course")

\* C2: a requested term that is no key of the index raises nothing, and a crawl that
\* returns has processed every requested term the index holds.
C2_AbsentTermIsSkipped ==
    /\ ~(pc = "crashed" /\ exc = "KeyError")
    /\ (pc = "exit" /\ cleared /\ vault.kind = "dict") =>
          \A i \in DOMAIN terms :
             terms[i] \in DictKeys(vault.map) => <<terms[i]>> \in dirs

\* C3: a CAS form without an execution field makes login return False with no
\* credential POST and no success, and nothing of crawl runs; a credential POST is
\* only ever issued for a form that held the field.
C3_NoExecutionNoLogin ==
    /\ login.field = "absent" =>
          /\ Requested("cas_post") = {}
          /\ login.ret # "true"
          /\ pc \in {"login_extract", "main_if", "exit"}
          /\ pc # "login_extract" => login.ret = "false"
          /\ ~cleared
    /\ Requested("cas_post") # {} => login.field = "present"

\* C3's case: login has returned False for a form without the field.
C3_Witness ==
    /\ login.field = "absent"
    /\ login.ret = "false"
    /\ pc = "exit"

\* An attempt of download_file failed: a transport error or an error status.
AttemptFailed(a) == a.outcome # "ok"

\* C4: a call of download_file that has returned made at most two GETs, the first
\* one verified; a second one only after a TLS error of the first, and unverified; a
\* first attempt that fails otherwise returns False at once; a TLS error and then a
\* successful retry that is written out returns True with the retry's body in the
\* file; two failed attempts return False with nothing written.
C4_RetryOnlyOnTls ==
    dl.ret # "none" =>
       LET a == dl.attempts
       IN /\ Len(a) \in {1, 2}
          /\ a[1].verify
          /\ Len(a) = 2 => a[1].outcome = "ssl" /\ ~a[2].verify
          /\ a[1].outcome \in {"fail", "status"} => Len(a) = 1 /\ dl.ret = "false"
          /\ (Len(a) = 2 /\ a[2].outcome = "ok" /\ dl.write = "ok") =>
                /\ dl.ret = "true"
                /\ files[Val(dl.path)] = FileBody(Val(dl.url))
          /\ (Len(a) = 2 /\ AttemptFailed(a[1]) /\ AttemptFailed(a[2])) =>
                dl.ret = "false" /\ dl.written = None

\* C5: when the last attempt of download_file was answered with an error status, the
\* call returns False and writes nothing to the destination.
C5_ErrorStatusFails ==
    (dl.ret # "none" /\ dl.attempts[Len(dl.attempts)].outcome = "status") =>
       dl.ret = "false" /\ dl.written = None

\* Everything below a returned crawl's requested terms has been processed: every
\* course navigated, every page of every menu list requested, and for every entry
\* that was extracted its directory made, its text written and each of its files
\* requested.
AllProcessed ==
    \A c \in CoursesToVisit :
       /\ c.url \in DOMAIN hist.nav
       /\ LET menu == hist.nav[c.url]
          IN menu.kind = "dict" =>
             \A k \in DOMAIN menu.map :
                menu.map[k][2].kind = "list" =>
                \A l \in DOMAIN menu.map[k][2].links :
                   LET link == menu.map[k][2].links[l]
                       dir == <<Sanitize(c.name), Sanitize(menu.map[k][1]),
                                Sanitize(link.title)>>
                   IN /\ link.url \in DOMAIN hist.page
                      /\ LET got == hist.page[link.url]
                         IN got.kind = "dict" =>
                            \A n \in DOMAIN got.map :
                               \E t \in Range(terms) :
                                  LET entryDir == <<t>> \o dir \o <<got.map[n][1]>>
                                  IN /\ entryDir \in dirs
                                     /\ got.map[n][2].text # "" =>
                                           /\ Append(entryDir, <<"text.txt">>)
                                                 \in DOMAIN files
                                           /\ files[Append(entryDir, <<"text.txt">>)]
                                                 = TextFile(got.map[n][2].text)
                                     /\ \A f \in Range(got.map[n][2].files) :
                                           f.url \in Requested("get_verified")

\* The last request issued was for a page.
LastRequestIsPage == reqs # <<>> /\ reqs[Len(reqs)][1] = "page"

\* C6: a page whose extraction returned None is skipped with no exception and its
\* entries are never iterated; a download that returned False leaves crawl at the
\* next file; and a crawl that returns has processed everything else, whatever
\* pages and downloads failed.
C6_PageAndFileFailuresAreLocal ==
    /\ ~(pc = "crashed" /\ exc = "AttributeError" /\ LastRequestIsPage)
    /\ pc \in {"entry", "file", "dl_get1", "dl_get2", "dl_write"} =>
          entries.kind = "dict" /\ entries.map # <<>>
    /\ dl.ret = "false" => pc \in {"file", "dl_get1"} /\ exc = ""
    /\ (pc = "exit" /\ cleared) => AllProcessed

\* C6's case: a returned crawl in which the second page of a category could not be
\* extracted and the first file of an entry could not be downloaded, with the
\* entry's text and second file, the next category's page and the next course in
\* the mirror.
C6_Witness ==
    /\ pc = "exit" /\ cleared
    /\ PortalUrl("/page/p2") \in DOMAIN hist.page
    /\ hist.page[PortalUrl("/page/p2")].kind = "none"
    /\ PortalUrl("/file/f1") \in Requested("get_verified")
    /\ Append(Week1Dir, <<"slides", "_", "1.pdf">>) \notin DOMAIN files
    /\ Append(Week1Dir, <<"text.txt">>) \in DOMAIN files
    /\ Append(Week1Dir, <<"hw.zip">>) \in DOMAIN files
    /\ <<T25spring, <<"CS", "_", "A">>, <<"Info">>, <<"Syllabus">>, <<"Syllabus">>,
         <<"text.txt">>>> \in DOMAIN files
    /\ PortalUrl("/course/B") \in Requested("course")

\* C7: a storage failure in crawl (a directory that cannot be made, a text file that
\* cannot be written) raises nothing out of crawl.
C7_StorageFailureIsLocal ==
    ~(pc = "crashed" /\ exc = "OSError" /\ cleared)

\* C8: a course request that is answered with the CAS login page makes parse_course
\* return None, never a menu.
C8_ExpiredSessionIsNull ==
    \A url \in hist.expired : hist.nav[url].kind = "none"

ContentKinds == {"vault", "course", "page", "get_verified", "get_unverified"}

\* C9: a listing, course, page or file request is only ever issued after login has
\* returned True, and without that the mirror is as it was when the process started.
C9_LoginBeforeRequests ==
    /\ (\E i \in DOMAIN reqs : reqs[i][1] \in ContentKinds) => login.ret = "true"
    /\ login.ret # "true" =>
          /\ ~cleared
          /\ \/ dirs = {} /\ files = EmptyFiles
             \/ dirs = StaleDirs /\ files = StaleFiles

\* C9's case: the credentials were posted and rejected, and the process has ended.
C9_Witness ==
    /\ pc = "exit"
    /\ login.ret = "false"
    /\ Requested("cas_post") # {}
    /\ dirs = StaleDirs

\* C10: crawl issues no listing or content request before it has emptied the mirror
\* root, which then holds nothing of an earlier run; and a second run with the same
\* terms and the same answers ends with the mirror the first run left.
C10_RebuildIsDeterministic ==
    /\ (\E i \in DOMAIN reqs : reqs[i][1] \in ContentKinds) => cleared
    /\ pc = "crawl_vault" => dirs = {<<>>} /\ files = EmptyFiles
    /\ cleared => dirs \cap StaleDirs = {<<>>} /\ DOMAIN files \cap DOMAIN StaleFiles = {}
    /\ (run = 2 /\ cleared /\ pc \in {"exit", "crashed"} /\ snapshot.crawled) =>
          dirs = snapshot.dirs /\ files = snapshot.files

\* C10's case: the second of two crawls has returned, with downloaded files in the
\* mirror.
C10_Witness ==
    /\ run = 2 /\ pc = "exit" /\ cleared
    /\ snapshot.crawled
    /\ Append(Week1Dir, <<"hw.zip">>) \in DOMAIN files
    /\ Append(Week1Dir, <<"text.txt">>) \in DOMAIN files

\* The heading of the last of the first n items that holds one: the category that
\* was opened most recently, None when none was.
LastHeading(items, n) ==
    LET hs == {i \in 1..n : items[i].h3 # None}
    IN IF hs = {} THEN None
       ELSE items[CHOOSE i \in hs : \A j \in hs : j <= i].h3

\* The value a menu holds for a key.
MenuValue(menu, k) ==
    IF k \in DictKeys(menu) THEN menu[DictGet(menu, k)][2] ELSE [kind |-> "missing"]

\* Of two menus, the second holds what the first holds, in the same order, but for
\* the key k.
SameButFor(old, new, k) ==
    /\ DictKeys(new) = DictKeys(old) \cup {k}
    /\ \A i \in DOMAIN old : new[i][1] = old[i][1]
    /\ \A i \in DOMAIN old : old[i][1] # k => new[i] = old[i]

\* C11: every step of the walk over the menu's direct children does this: an item with
\* a heading opens that category with an empty link sequence and adds no link; an item
\* with an anchor that comes after a heading is appended as {title, url} to the category
\* that was opened most recently; an item with an anchor before any heading is stored
\* at the menu root as title -> url; any other item changes nothing.
C11_SidebarWalk ==
    [][(pc = "sidebar" /\ arg'.n = arg.n + 1) =>
          LET items == Val(arg.doc.menu)
              item == items[arg.n + 1]
              open == LastHeading(items, arg.n)
          IN IF item.h3 # None
             THEN /\ SameButFor(res, res', Val(item.h3))
                  /\ MenuValue(res', Val(item.h3)) = [kind |-> "list", links |-> <<>>]
             ELSE IF item.a = None
             THEN res' = res
             ELSE IF open # None
             THEN LET old == MenuValue(res, Val(open))
                      new == MenuValue(res', Val(open))
                  IN /\ SameButFor(res, res', Val(open))
                     /\ old.kind = "list" /\ new.kind = "list"
                     /\ Len(new.links) = Len(old.links) + 1
                     /\ SubSeq(new.links, 1, Len(old.links)) = old.links
                     /\ new.links[Len(new.links)].title = Val(item.a).text
             ELSE LET new == MenuValue(res', Val(item.a).text)
                  IN /\ SameButFor(res, res', Val(item.a).text)
                     /\ new.kind = "str"
                     /\ new.url \in {PortalUrl(Val(item.a).href),
                                      <<BaseUrl, "announcement", "_1_1">>}
      ]_vars

\* The heading parts spell <FW(>Season YYYY<FW)>: one of the four seasons, a blank and
\* four digits between full-width parentheses.
WellFormedTerm(p) ==
    /\ p.open = "FW(" /\ p.close = "FW)"
    /\ p.season \in {"Spring", "Fall", "Summer", "Winter"}
    /\ p.sep = " "
    /\ Len(p.year) = 4
    /\ \A i \in DOMAIN p.year :
          p.year[i] \in {"0", "1", "2", "3", "4", "5", "6", "7", "8", "9"}

LowerCased(season) ==
    CASE season = "Spring" -> "spring"
      [] season = "Fall" -> "fall"
      [] season = "Summer" -> "summer"
      [] season = "Winter" -> "winter"

\* C12: the index parse_vault returns for a listing with one heading has one key: for
\* a heading that holds <FW(>Season YYYY<FW)> the last two digits of the year followed
\* by the lower-cased season (of the first such place, when the text before holds one
\* too), and "unknown" for a heading that holds no such place.
C12_TermKey ==
    pc = "returned" =>
       /\ res.kind = "dict"
       /\ Len(res.map) = 1
       /\ res.map[1][1] =
             IF Len(arg.before) = 8 THEN <<"2", "4", "fall">>
             ELSE IF WellFormedTerm(arg)
             THEN <<arg.year[3], arg.year[4], LowerCased(arg.season)>>
             ELSE <<"unknown">>

\* C12's case: the heading "2025<FW(>Spring 2025<FW)>" has given the key 25spring.
C12_Witness ==
    /\ pc = "returned"
    /\ HeadingText(arg) = <<"2025", "FW(", "Spring", " ", "2", "0", "2", "5", "FW)">>
    /\ DictKeys(res.map) = {<<"2", "5", "spring">>}

\* The URLs of the links a menu holds: those of its categories and those stored at
\* its root.
MenuLinkUrls(menu) ==
    UNION {IF menu[k][2].kind = "list"
           THEN {menu[k][2].links[l].url : l \in DOMAIN menu[k][2].links}
           ELSE {menu[k][2].url} : k \in DOMAIN menu}

\* How often the page at a URL was requested in this run.
PageRequests(url) == Cardinality({i \in DOMAIN reqs : reqs[i] = <<"page", url>>})

\* C13: crawl raises nothing when it walks a menu that holds a link at its root as a
\* bare title -> url pair, and a crawl that returns has requested the page of every
\* link of every menu it was given exactly once.
C13_EveryMenuLinkIsRequested ==
    /\ ~(pc = "crashed" /\ exc = "TypeError" /\ pages.kind = "str")
    /\ (pc = "exit" /\ cleared) =>
          \A c \in DOMAIN hist.nav :
             hist.nav[c].kind = "dict" =>
                \A url \in MenuLinkUrls(hist.nav[c].map) : PageRequests(url) = 1

=============================================================================
